---- MODULE Spec2Model ----
(***************************************************************************)
(* A model of src/signal.c (Mono.Posix UnixSignal support): the table of   *)
(* signal registrations, the dispatch handler default_handler, install,    *)
(* uninstall and WaitAny, together with the parts of the platform they     *)
(* use: signal(2) dispositions, the table mutex, pipes and select(2).      *)
(***************************************************************************)
EXTENDS Integers, Sequences, FiniteSets, TLC

(* ------------------------------ bounds --------------------------------- *)

\* Number of slots of the table.  The source has 64 (signal.c:66); the model
\* keeps the code's loops and bounds checks and scales the table down.
NUM_SIGNALS == 2

\* Signal numbers 1..MaxSig are accepted by signal(2); 0 is not.
MaxSig == 2

\* Number of signal deliveries in one behaviour.
MaxDeliver == 2

\* Number of calls of install, uninstall and WaitAny in one behaviour.
MaxCalls == 4

\* Number of calls in one behaviour of the systems that add fairness or
\* callers passing &signals[NUM_SIGNALS].
MaxCallsShort == 3

\* Largest handle count given to WaitAny.
MaxWait == 2

\* Largest finite timeout (milliseconds) given to WaitAny.
MaxTimeout == 2

(* ----------------------------- constants ------------------------------- *)

Threads == {"t1", "t2"}

Slots == 0 .. (NUM_SIGNALS - 1)

Sigs == 1 .. MaxSig

\* Arguments a caller may give to install: the valid signals and 0, which
\* the platform rejects.
SigArgs == 0 .. MaxSig

\* Pointers are addresses in units of one signal_info.  Address 0 is NULL,
\* address 1 is a non-null address below the table, &signals[i] is i + 2.
NULL == 0

SlotPtr(i) == i + 2

SlotOf(h) == h - 2

\* &signals[NUM_SIGNALS]: the position immediately after the last slot.
PastEnd == SlotPtr(NUM_SIGNALS)

SlotPtrs == {SlotPtr(i) : i \in Slots}

\* Handler values.  SIG_DFL is the null pointer, so a handler field set to
\* NULL reads as SIG_DFL.
SIG_DFL == "SIG_DFL"

SIG_IGN == "SIG_IGN"

SIG_ERR == "SIG_ERR"

default_handler == "default_handler"

\* Descriptors a pipe() may return: every WaitAny needs two per handle.
\* Descriptor 0 is taken to be open already (the code reads 0 as "no pipe").
MaxFd == 2 * MaxWait

Fds == 1 .. MaxFd

\* Timeouts given to WaitAny, in milliseconds: -1 waits without limit, -2 is
\* a negative time select(2) refuses.
Timeouts == {0 - 2, 0 - 1, 0, MaxTimeout}

\* Dispositions at start: neighbouring signals differ, so restoring one
\* signal's disposition to another signal is seen.
InitialDisposition == [s \in Sigs |-> IF s % 2 = 1 THEN SIG_DFL ELSE SIG_IGN]

\* A zero-initialised struct Mono_Unix_UnixSignal_SignalInfo.
ZeroInfo ==
  [signum |-> 0, count |-> 0, read_fd |-> 0, write_fd |-> 0,
   have_handler |-> 0, handler |-> SIG_DFL]

VARIABLES
  signals,   \* the table: Slots -> signal_info
  disp,      \* the platform's disposition of every valid signal
  mutex,     \* signals_mutex: "free" or the thread that holds it
  th,        \* per thread: position (pc), arguments, locals; reads is the
             \* history of the descriptors the scan has read from
  hnd,       \* the running dispatch handler: [signum, i]; signum 0 = none
  fdkind,    \* per descriptor: "closed", "r" (read end) or "w" (write end)
  peer,      \* per open pipe end: the descriptor of the other end
  buf,       \* per read end: bytes in the pipe
  prior,     \* history: disposition of X just before the first install(X)
  live,      \* history: slot's handle was returned and not yet uninstalled
  stale,     \* history: an earlier handle of the slot has been uninstalled
  due,       \* history: deliveries whose scan meets the slot registered
  wcalls,    \* history: write() calls made for the slot since its install
  everArmed, \* history: slot was armed by a WaitAny since its install
  ndeliv,    \* history: deliveries so far
  calls,     \* calls of install, uninstall and WaitAny still to be made
  clobbered  \* history: memory after the table has been written

vars ==
  <<signals, disp, mutex, th, hnd, fdkind, peer, buf, prior, live, stale,
    due, wcalls, everArmed, ndeliv, calls, clobbered>>

pipevars == <<fdkind, peer, buf>>

histvars ==
  <<prior, live, stale, due, wcalls, everArmed, calls, clobbered>>

IdleThread ==
  [pc |-> "idle", op |-> "none", sig |-> 0, h |-> NULL, hs |-> <<>>,
   timeout |-> 0, i |-> 0, r |-> 0, idx |-> 0, rfds |-> {}, max_fd |-> 0,
   errno |-> "0", valid |-> FALSE, how |-> "", c0 |-> <<>>,
   reads |-> <<>>]

\* The state after the program is loaded, with n calls to come.
Start(n) ==
  /\ signals = [i \in Slots |-> ZeroInfo]
  /\ disp = InitialDisposition
  /\ mutex = "free"
  /\ th = [t \in Threads |-> IdleThread]
  /\ hnd = [signum |-> 0, i |-> 0]
  /\ fdkind = [f \in Fds |-> "closed"]
  /\ peer = [f \in Fds |-> 0]
  /\ buf = [f \in Fds |-> 0]
  /\ prior = disp
  /\ live = [i \in Slots |-> FALSE]
  /\ stale = [i \in Slots |-> FALSE]
  /\ due = [i \in Slots |-> 0]
  /\ wcalls = [i \in Slots |-> 0]
  /\ everArmed = [i \in Slots |-> FALSE]
  /\ ndeliv = 0
  /\ calls = n
  /\ clobbered = FALSE

Init == Start(MaxCalls)

InitShort == Start(MaxCallsShort)

(* ------------------------------ platform ------------------------------- *)

\* signal(2) accepts the signal number.
signal_ok(sig) == sig \in Sigs

\* write(fd, &c, 1) on a pipe: a byte is queued when fd is an open write end
\* whose read end is open; any failure is ignored by the caller.
pipe_write(b, fd) ==
  IF fd \in Fds /\ fdkind[fd] = "w" /\ peer[fd] \in Fds /\ fdkind[peer[fd]] = "r"
  THEN [b EXCEPT ![peer[fd]] = @ + 1]
  ELSE b

(* --------------------------- default_handler --------------------------- *)

\* A handler that counts a delivery in every registered slot.
handler_matches_registered(info, signum) == info.signum # 0

\* signal.c:76: the slot is one the delivered signal is fanned out to.
handler_matches(info, signum) == info.signum = signum

\* A handler that takes descriptor 0 for a wake pipe.
should_write_nonneg(fd) == fd >= 0

\* signal.c:80: the registration has a wake pipe.
should_write(fd) == fd > 0

\* A handler that waits until signals_mutex is free before each iteration.
handler_waits_for_mutex == mutex = "free"

\* signal.c:73-84: what an iteration of the handler waits for.  The handler
\* calls no pthread function; it uses atomic reads and writes and write(2).
handler_ready == TRUE

\* The platform runs default_handler for a delivery of signum.
Deliver(signum) ==
  /\ hnd.signum = 0
  /\ ndeliv < MaxDeliver
  /\ disp[signum] = default_handler
  /\ hnd' = [signum |-> signum, i |-> 0]
  /\ ndeliv' = ndeliv + 1
  /\ due' = [i \in Slots |->
              IF signals[i].signum = signum THEN due[i] + 1 ELSE due[i]]
  /\ UNCHANGED <<signals, disp, mutex, th, pipevars, prior, live, stale,
                 wcalls, everArmed, calls, clobbered>>

\* One iteration of the handler's loop (signal.c:73-84).
HandlerStep ==
  /\ hnd.signum # 0
  /\ hnd.i < NUM_SIGNALS
  /\ handler_ready
  /\ LET i == hnd.i
         hit == handler_matches(signals[i], hnd.signum)
         fd == signals[i].write_fd
         wr == hit /\ should_write(fd)
     IN /\ signals' = IF hit THEN [signals EXCEPT ![i].count = @ + 1]
                      ELSE signals
        /\ buf' = IF wr THEN pipe_write(buf, fd) ELSE buf
        /\ wcalls' = IF wr THEN [wcalls EXCEPT ![i] = @ + 1] ELSE wcalls
  /\ hnd' = [hnd EXCEPT !.i = @ + 1]
  /\ UNCHANGED <<disp, mutex, th, fdkind, peer, prior, live, stale, due,
                 everArmed, ndeliv, calls, clobbered>>

\* The loop ends and the handler returns (signal.c:85).
HandlerReturn ==
  /\ hnd.signum # 0
  /\ hnd.i = NUM_SIGNALS
  /\ hnd' = [signum |-> 0, i |-> 0]
  /\ UNCHANGED <<signals, disp, mutex, th, pipevars, histvars, ndeliv>>

(* ------------------------------ the mutex ------------------------------ *)

\* A thread enters install, uninstall or WaitAny and finds the mutex held:
\* it waits in pthread_mutex_lock (signal.c:97, 158, 270).  Nothing reads
\* the call's arguments before the lock is held, so they are drawn when it
\* is taken.  A call that finds the mutex free takes it at once.
\* signals_mutex is a default mutex initialised statically, for which
\* pthread_mutex_lock returns 0: the mr != 0 returns are never taken.
Block(t) ==
  /\ th[t].pc = "idle"
  /\ mutex # "free"
  /\ calls > 0
  /\ calls' = calls - 1
  /\ th' = [th EXCEPT ![t].pc = "lock"]
  /\ UNCHANGED <<signals, disp, mutex, hnd, pipevars, prior, live, stale,
                 due, wcalls, everArmed, clobbered, ndeliv>>

\* Thread t may take the mutex: it waits for it, or it calls now.
CanLock(t) ==
  /\ mutex = "free"
  /\ \/ th[t].pc = "lock"
     \/ th[t].pc = "idle" /\ calls > 0

\* The calls still to be made, after t has taken the mutex.
CallsAfterLock(t) == IF th[t].pc = "idle" THEN calls - 1 ELSE calls

\* pthread_mutex_unlock followed by the return of r (signal.c:135-137,
\* 180-182, 284-286).  A handle install returns becomes the caller's.
Unlock(t) ==
  /\ th[t].pc = "unlock"
  /\ mutex = t
  /\ mutex' = "free"
  /\ th' = [th EXCEPT ![t] = IdleThread]
  /\ live' = IF th[t].op = "install" /\ th[t].r # NULL
             THEN [live EXCEPT ![SlotOf(th[t].r)] = TRUE]
             ELSE live
  /\ UNCHANGED <<signals, disp, hnd, pipevars, prior, stale, due, wcalls, everArmed, ndeliv, calls, clobbered>>

(* ------------------------------- install ------------------------------- *)

\* An install that leaves the count the slot had.
initial_count_kept(old) == old

\* signal.c:131: the count install stores, old being the slot's count.
initial_count(old) == 0

\* An install that does not look at what signal() returned.
install_failed_never(old) == FALSE

\* signal.c:107: signal (sig, default_handler) failed.
install_failed(old) == old = SIG_ERR

\* An install that also takes a slot that has counted no delivery.
slot_free_uncounted(info) == info.signum = 0 \/ info.count = 0

\* signal.c:104: the slot holds no registration.
slot_free(info) == info.signum = 0

\* An install that never looks for the disposition recorded by an earlier
\* registration of the signal.
records_prior_never(info, sig) == FALSE

\* signal.c:116-117: slot i already records the disposition that preceded
\* the table's handler for sig.
records_prior(info, sig) ==
  info.signum = sig /\ info.handler # default_handler

\* The loop of install (signal.c:103-123) from iteration i on.  st holds the
\* table, the dispositions and the locals h, have_handler, handler, errno.
RECURSIVE install_loop(_, _, _)
install_loop(i, sig, st) ==
  IF i >= NUM_SIGNALS THEN st
  ELSE
    LET claim == st.h = NULL /\ slot_free(st.signals[i])
        old == IF signal_ok(sig) THEN st.disp[sig] ELSE SIG_ERR
        s1 == IF ~claim THEN st
              ELSE IF install_failed(old)
              THEN [st EXCEPT !.signals[i].handler = SIG_DFL,
                              !.errno = "EINVAL",
                              !.brk = TRUE]
              ELSE [st EXCEPT !.h = SlotPtr(i),
                              !.signals[i].handler = old,
                              !.signals[i].have_handler = 1,
                              !.disp[sig] = default_handler]
        found == ~s1.have_handler /\ records_prior(s1.signals[i], sig)
        s2 == IF found
              THEN [s1 EXCEPT !.have_handler = TRUE,
                              !.handler = s1.signals[i].handler]
              ELSE s1
    IN IF s1.brk THEN s1
       ELSE IF s2.h # NULL /\ s2.have_handler THEN s2
       ELSE install_loop(i + 1, sig, s2)

\* install (sig) up to its unlock (signal.c:97-133): take the mutex, find a
\* free slot, install default_handler, find the disposition to restore
\* later, then clear count and set signum.  The handler reads none of the
\* fields written before signum, so the steps before it are one.
Install(t, sig) ==
  /\ CanLock(t)
  /\ mutex' = t
  /\ calls' = CallsAfterLock(t)
  /\ LET st0 == [signals |-> signals, disp |-> disp, h |-> NULL,
                 have_handler |-> FALSE, handler |-> SIG_DFL,
                 errno |-> "0", brk |-> FALSE]
         st == install_loop(0, sig, st0)
         sl == SlotOf(st.h)
         first == \A j \in Slots : signals[j].signum # sig
         tab == IF st.h # NULL /\ st.have_handler
                THEN [st.signals EXCEPT ![sl].have_handler = 1,
                                        ![sl].handler = st.handler]
                ELSE st.signals
     IN /\ signals' = IF st.h # NULL
                      THEN [tab EXCEPT ![sl].count = initial_count(@),
                                       ![sl].signum = sig]
                      ELSE tab
        /\ disp' = st.disp
        /\ prior' = IF st.h # NULL /\ first
                    THEN [prior EXCEPT ![sig] = disp[sig]]
                    ELSE prior
        /\ due' = IF st.h # NULL
                  THEN [due EXCEPT ![sl] =
                          IF hnd.signum = sig /\ hnd.i <= sl THEN 1 ELSE 0]
                  ELSE due
        /\ wcalls' = IF st.h # NULL THEN [wcalls EXCEPT ![sl] = 0] ELSE wcalls
        /\ everArmed' = IF st.h # NULL
                        THEN [everArmed EXCEPT ![sl] = tab[sl].write_fd # 0]
                        ELSE everArmed
        /\ th' = [th EXCEPT ![t].pc = "unlock", ![t].op = "install",
                            ![t].sig = sig, ![t].r = st.h,
                            ![t].errno = st.errno]
  /\ UNCHANGED <<hnd, pipevars, live, stale, clobbered, ndeliv>>

(* ------------------------------ uninstall ------------------------------ *)

\* signal.c:145-148: the number of slots whose signum is signum.
count_handlers(tab, signum) ==
  Cardinality({i \in Slots : tab[i].signum = signum})

\* signal.c:166: the handle is refused.
handle_rejected(h) == h = NULL \/ h < SlotPtr(0) \/ h > SlotPtr(NUM_SIGNALS)

\* signal.c:170: the registration is the last one of its signal.
last_handler(tab, info) ==
  info.have_handler # 0 /\ count_handlers(tab, info.signum) = 1

\* Pointers that designate no slot and that signal.c:166 compares with the
\* table: NULL, an address below it, an address beyond &signals[NUM_SIGNALS].
BadPtrs == {NULL, 1, PastEnd + 1}

\* What a read through &signals[NUM_SIGNALS] may find: the memory after the
\* table belongs to another object.
Garbage ==
  [signum : 0 .. MaxSig, count : {0}, read_fd : {0}, write_fd : {0},
   have_handler : {0, 1}, handler : {"garbage"}]

\* uninstall (info) up to its unlock (signal.c:158-177), reading *h as info.
\* Writes through a pointer to a slot change the slot; writes through
\* &signals[NUM_SIGNALS] change the memory after the table.
uninstall_body(t, h, valid, info) ==
  LET sl == SlotOf(h)
      last == last_handler(signals, info)
      ok == signal_ok(info.signum)
      intab == h \in SlotPtrs
  IN
  /\ CanLock(t)
  /\ mutex' = t
  /\ calls' = CallsAfterLock(t)
  /\ IF handle_rejected(h)
     THEN /\ th' = [th EXCEPT ![t].pc = "unlock", ![t].op = "uninstall",
                              ![t].h = h, ![t].valid = valid,
                              ![t].r = 0 - 1, ![t].errno = "EINVAL"]
          /\ UNCHANGED <<signals, disp, due, wcalls, everArmed,
                         clobbered>>
     ELSE /\ disp' = IF last /\ ok
                     THEN [disp EXCEPT ![info.signum] = info.handler]
                     ELSE disp
          /\ signals' =
               IF ~intab THEN signals
               ELSE IF last
               THEN [signals EXCEPT ![sl].handler = SIG_DFL,
                                    ![sl].have_handler = 0,
                                    ![sl].signum = 0]
               ELSE [signals EXCEPT ![sl].signum = 0]
          /\ clobbered' = (clobbered \/ ~intab)
          /\ due' = IF intab THEN [due EXCEPT ![sl] = 0] ELSE due
          /\ wcalls' = IF intab THEN [wcalls EXCEPT ![sl] = 0] ELSE wcalls
          /\ everArmed' = IF intab THEN [everArmed EXCEPT ![sl] = FALSE]
                          ELSE everArmed
          /\ th' = [th EXCEPT ![t].pc = "unlock", ![t].op = "uninstall",
                              ![t].h = h, ![t].valid = valid,
                              ![t].sig = info.signum,
                              ![t].r = IF last /\ ok THEN 0 ELSE 0 - 1,
                              ![t].errno = IF last /\ ~ok THEN "EINVAL"
                                           ELSE "0"]
  /\ UNCHANGED <<hnd, pipevars, prior, ndeliv>>

\* uninstall called with a pointer a caller can hold: the slot's current
\* handle ("cur", which the call uses up), a handle of the slot that was
\* uninstalled before ("old"), or a pointer that designates no slot ("bad").
Uninstall(t, h, mode) ==
  /\ \/ h \in BadPtrs /\ mode = "bad"
     \/ h \in SlotPtrs /\ mode = "cur" /\ live[SlotOf(h)]
     \/ h \in SlotPtrs /\ mode = "old" /\ stale[SlotOf(h)]
  /\ uninstall_body(t, h, mode = "cur",
                    IF h \in SlotPtrs THEN signals[SlotOf(h)] ELSE ZeroInfo)
  /\ live' = IF mode = "cur" THEN [live EXCEPT ![SlotOf(h)] = FALSE] ELSE live
  /\ stale' = IF mode = "cur" THEN [stale EXCEPT ![SlotOf(h)] = TRUE]
              ELSE stale

\* uninstall called with &signals[NUM_SIGNALS], the position immediately
\* after the last slot: *h is read from the memory after the table.
UninstallPastEnd(t, g) ==
  /\ uninstall_body(t, PastEnd, FALSE, g)
  /\ UNCHANGED <<live, stale>>

(* ------------------------------- WaitAny ------------------------------- *)

\* Handle sequences given to WaitAny: 1..MaxWait pointers to slots, in any
\* order, repeated or not, registered or not.
HandleSeqs ==
  UNION {[1 .. n -> SlotPtrs] : n \in 1 .. MaxWait}

Min(S) == CHOOSE x \in S : \A y \in S : x <= y

\* close(fd): the descriptor is released; a read end's bytes are dropped.
close_kind(k, fd) == IF fd \in Fds THEN [k EXCEPT ![fd] = "closed"] ELSE k

close_buf(b, fd) == IF fd \in Fds THEN [b EXCEPT ![fd] = 0] ELSE b

\* A wait_for_any that reports the first handle when select returns 0.
timeout_result_zero(timeout) == 0

\* A wait_for_any that leaves idx at -1 when select returns 0.
timeout_result_unset(timeout) == 0 - 1

\* signal.c:239: the value wait_for_any returns when select returns 0.
timeout_result(timeout) == timeout

\* A scan that takes every handle's descriptor for a readable one.
fd_isset_always(fd, rfds) == TRUE

\* signal.c:244: FD_ISSET (h->read_fd, read_fds).
fd_isset(fd, rfds) == fd \in rfds

\* setup_pipes (signal.c:189-202) from iteration i on.  st holds the table,
\* the descriptors, read_fds, max_fd, r and errno.
RECURSIVE setup_pipes(_, _, _)
setup_pipes(i, hs, st) ==
  IF i >= Len(hs) THEN st
  ELSE
    LET free == {f \in Fds : st.fdkind[f] = "closed"}
        rfd == Min(free)
        wfd == Min(free \ {rfd})
        sl == SlotOf(hs[i + 1])
    IN IF Cardinality(free) < 2
       THEN [st EXCEPT !.r = 0 - 1, !.errno = "EMFILE"]
       ELSE setup_pipes(i + 1, hs,
              [st EXCEPT !.signals[sl].read_fd = rfd,
                         !.signals[sl].write_fd = wfd,
                         !.fdkind[rfd] = "r",
                         !.fdkind[wfd] = "w",
                         !.peer[rfd] = wfd,
                         !.peer[wfd] = rfd,
                         !.rfds = @ \cup {rfd},
                         !.max_fd = IF rfd > @ THEN rfd ELSE @,
                         !.armed = @ \cup {sl},
                         !.r = 0])

\* teardown_pipes (signal.c:210-218) from iteration i on.
RECURSIVE teardown_pipes(_, _, _)
teardown_pipes(i, hs, st) ==
  IF i >= Len(hs) THEN st
  ELSE
    LET sl == SlotOf(hs[i + 1])
        rfd == st.signals[sl].read_fd
        wfd == st.signals[sl].write_fd
    IN teardown_pipes(i + 1, hs,
         [st EXCEPT !.fdkind = close_kind(close_kind(@, rfd), wfd),
                    !.buf = close_buf(close_buf(@, rfd), wfd),
                    !.signals[sl].read_fd = 0,
                    !.signals[sl].write_fd = 0])

\* WaitAny (_signals, count, timeout) up to its wait (signal.c:270-279):
\* take the mutex, clear read_fds, and arm a pipe per handle.  When pipe()
\* fails the call goes on to teardown_pipes.
WaitArm(t, hs, timeout) ==
  /\ CanLock(t)
  /\ mutex' = t
  /\ calls' = CallsAfterLock(t)
  /\ LET st0 == [signals |-> signals, fdkind |-> fdkind, peer |-> peer,
                 rfds |-> {}, max_fd |-> 0, armed |-> {}, r |-> 0,
                 errno |-> "0"]
         st == setup_pipes(0, hs, st0)
     IN /\ signals' = st.signals
        /\ fdkind' = st.fdkind
        /\ peer' = st.peer
        /\ everArmed' = [i \in Slots |-> everArmed[i] \/ i \in st.armed]
        /\ wcalls' = [i \in Slots |-> IF i \in st.armed THEN 0 ELSE wcalls[i]]
        /\ th' = [th EXCEPT ![t].pc = IF st.r = 0 THEN "w_select"
                                      ELSE "w_teardown",
                            ![t].op = "WaitAny",
                            ![t].hs = hs,
                            ![t].timeout = timeout,
                            ![t].how = IF st.r = 0 THEN "" ELSE "pipe",
                            ![t].rfds = st.rfds,
                            ![t].max_fd = st.max_fd,
                            ![t].r = st.r,
                            ![t].errno = st.errno,
                            ![t].c0 = [k \in 1 .. Len(hs) |->
                                         signals[SlotOf(hs[k])].count]]
  /\ UNCHANGED <<disp, hnd, buf, prior, live, stale, due, clobbered,
                 ndeliv>>

\* The descriptors select (max_fd + 1, read_fds, ...) finds readable.
Ready(t) == {f \in th[t].rfds : f <= th[t].max_fd /\ buf[f] > 0}

\* select refuses a negative time (a timeout below -1): r = -1 with errno
\* EINVAL, and wait_for_any returns -1 (signal.c:234-237).
SelectInvalid(t) ==
  /\ th[t].pc = "w_select"
  /\ th[t].timeout < 0 - 1
  /\ th' = [th EXCEPT ![t].r = 0 - 1, ![t].errno = "EINVAL",
                      ![t].how = "error",
                      ![t].c0 = <<>>, ![t].pc = "w_teardown"]
  /\ UNCHANGED <<signals, disp, mutex, hnd, pipevars, histvars, ndeliv>>

\* A wait_for_any that calls select once.
select_retried_never(r, errno) == FALSE

\* signal.c:235: the condition on which select is called again.
select_retried(r, errno) == r = 0 - 1 /\ errno = "EINTR"

\* select is interrupted by a signal: errno EINTR, and the loop calls it
\* again with the same descriptors and the full timeout (signal.c:225-235).
SelectEINTR(t) ==
  /\ th[t].pc = "w_select"
  /\ th[t].timeout >= 0 - 1
  /\ Ready(t) = {}
  /\ th' = IF select_retried(0 - 1, "EINTR")
           THEN [th EXCEPT ![t].errno = "EINTR"]
           ELSE [th EXCEPT ![t].errno = "EINTR", ![t].r = 0 - 1,
                           ![t].how = "error", ![t].c0 = <<>>,
                           ![t].pc = "w_teardown"]
  /\ UNCHANGED <<signals, disp, mutex, hnd, pipevars, histvars, ndeliv>>

\* select returns 0: the time is over and no descriptor is readable
\* (signal.c:238-239).
SelectTimeout(t) ==
  /\ th[t].pc = "w_select"
  /\ th[t].timeout >= 0
  /\ Ready(t) = {}
  /\ th' = [th EXCEPT ![t].r = timeout_result(th[t].timeout),
                      ![t].how = "timeout",
                      ![t].rfds = {}, ![t].c0 = <<>>,
                      ![t].pc = "w_teardown"]
  /\ UNCHANGED <<signals, disp, mutex, hnd, pipevars, histvars, ndeliv>>

\* select returns the readable descriptors (signal.c:240): r > 0, and
\* read_fds holds them.
SelectReady(t) ==
  /\ th[t].pc = "w_select"
  /\ th[t].timeout >= 0 - 1
  /\ Ready(t) # {}
  /\ th' = [th EXCEPT ![t].r = Cardinality(Ready(t)),
                      ![t].rfds = Ready(t),
                      ![t].idx = 0 - 1, ![t].how = "ready",
                      ![t].pc = "w_scan"]
  /\ UNCHANGED <<signals, disp, mutex, hnd, pipevars, histvars, ndeliv>>

\* One iteration of the loop over the handles (signal.c:242-250): a handle
\* whose read_fd is in read_fds has one byte read from its pipe, and the
\* first such index is kept.  read blocks while the pipe is empty.  After
\* the last iteration wait_for_any returns idx.
ScanStep(t) ==
  /\ th[t].pc = "w_scan"
  /\ LET i == th[t].i
         fd == signals[SlotOf(th[t].hs[i + 1])].read_fd
         set == fd_isset(fd, th[t].rfds)
         idx == IF set /\ th[t].idx = 0 - 1 THEN i ELSE th[t].idx
         done == i + 1 = Len(th[t].hs)
     IN /\ set => buf[fd] > 0
        /\ buf' = IF set THEN [buf EXCEPT ![fd] = @ - 1] ELSE buf
        /\ th' = [th EXCEPT ![t].idx = idx,
                            ![t].reads = IF set THEN Append(@, fd) ELSE @,
                            ![t].r = IF done THEN idx ELSE @,
                            ![t].i = IF done THEN 0 ELSE i + 1,
                            ![t].pc = IF done THEN "w_teardown" ELSE "w_scan"]
  /\ UNCHANGED <<signals, disp, mutex, hnd, fdkind, peer, histvars, ndeliv>>

\* teardown_pipes (signal.c:282): close and clear the pipe of every handle.
\* The locals of wait_for_any are dead from here on.
Teardown(t) ==
  /\ th[t].pc = "w_teardown"
  /\ LET st0 == [signals |-> signals, fdkind |-> fdkind, buf |-> buf]
         st == teardown_pipes(0, th[t].hs, st0)
     IN /\ signals' = st.signals
        /\ fdkind' = st.fdkind
        /\ buf' = st.buf
  /\ th' = [th EXCEPT ![t].pc = "unlock", ![t].rfds = {}, ![t].max_fd = 0,
                      ![t].idx = 0, ![t].c0 = <<>>, ![t].reads = <<>>]
  /\ UNCHANGED <<disp, mutex, hnd, peer, histvars, ndeliv>>

(* ------------------------------- system -------------------------------- *)

ThreadStep(t) ==
  \/ Block(t)
  \/ \E sig \in SigArgs : Install(t, sig)
  \/ \E h \in BadPtrs \cup SlotPtrs, mode \in {"bad", "cur", "old"} :
       Uninstall(t, h, mode)
  \/ \E hs \in HandleSeqs, timeout \in Timeouts : WaitArm(t, hs, timeout)
  \/ SelectInvalid(t)
  \/ SelectEINTR(t)
  \/ SelectTimeout(t)
  \/ SelectReady(t)
  \/ ScanStep(t)
  \/ Teardown(t)
  \/ Unlock(t)

Next ==
  \/ \E t \in Threads : ThreadStep(t)
  \/ \E signum \in Sigs : Deliver(signum)
  \/ HandlerStep
  \/ HandlerReturn

Spec == Init /\ [][Next]_vars

\* The same system with callers that also pass &signals[NUM_SIGNALS].
NextPastEnd ==
  \/ Next
  \/ \E t \in Threads, g \in Garbage : UninstallPastEnd(t, g)

SpecPastEnd == InitShort /\ [][NextPastEnd]_vars

\* The steps of a call in progress that the scheduler runs sooner or later:
\* select returns once a descriptor is readable or the time is over, and
\* the code after it runs to the return.
Running(t) ==
  \/ SelectInvalid(t)
  \/ SelectTimeout(t)
  \/ SelectReady(t)
  \/ ScanStep(t)
  \/ Teardown(t)
  \/ Unlock(t)

\* The system with threads and handlers that are not starved.
SpecFair ==
  /\ InitShort /\ [][Next]_vars
  /\ \A t \in Threads : WF_vars(Running(t))
  /\ WF_vars(HandlerStep \/ HandlerReturn)

(* ----------------------------- properties ------------------------------ *)

\* No call of install or uninstall is between its lock and its return.
Quiet == \A t \in Threads : th[t].op \notin {"install", "uninstall"}

\* The slots registered for signal X.
Registered(X) == {i \in Slots : signals[i].signum = X}

\* C1: once no registration of a signal X is left, the disposition of X is
\* again the one that was in effect just before the first registration of X
\* was installed; registrations of X that were installed and uninstalled in
\* between, sharing the signal or reusing a slot, do not change that.
C1_PriorRestored ==
  \A X \in Sigs : Registered(X) = {} => disp[X] = prior[X]

\* C1 witness: a call of uninstall has just removed the last registration of
\* signal 2 and restored SIG_IGN, after another registration that shared
\* signal 2 (its slot still holds the copied disposition) was uninstalled.
C1_Witness ==
  \E t \in Threads, j \in Slots :
    /\ th[t].pc = "unlock" /\ th[t].op = "uninstall" /\ th[t].valid
    /\ th[t].sig = 2 /\ th[t].r = 0
    /\ j # SlotOf(th[t].h)
    /\ signals[j].signum = 0 /\ signals[j].have_handler = 1
    /\ signals[j].handler = SIG_IGN
    /\ Registered(2) = {}
    /\ prior[2] = SIG_IGN /\ disp[2] = SIG_IGN

\* C2: whenever no install or uninstall is in progress, the disposition of
\* a signal X is the dispatch handler exactly when some slot is registered
\* for X.  (It holds in Spec; a call of uninstall with &signals[NUM_SIGNALS]
\* breaks it.)
C2_DispatchIffRegistered ==
  Quiet =>
    \A X \in Sigs : (disp[X] = default_handler) <=> (Registered(X) # {})

\* C3: a step of the dispatch handler for a delivery of X visits one slot,
\* adds exactly 1 to its count when the slot is registered for X, and
\* changes no other count; the scan visits the slots one after the other, so
\* one delivery adds exactly 1 to every registration of X and nothing to the
\* registrations of other signals.
C3_FanOut ==
  [][hnd.signum # 0 /\ hnd' # hnd =>
       /\ hnd.i < NUM_SIGNALS => hnd' = [hnd EXCEPT !.i = hnd.i + 1]
       /\ \A j \in Slots :
            signals'[j].count =
              IF j = hnd.i /\ signals[j].signum = hnd.signum
              THEN signals[j].count + 1
              ELSE signals[j].count]_vars

\* C3 witness: the handler has finished the scan of the only delivery so
\* far, and two registrations of the delivered signal each count 1.
C3_Witness ==
  /\ ndeliv = 1 /\ hnd.signum # 0 /\ hnd.i = NUM_SIGNALS
  /\ signals[0].signum = hnd.signum /\ signals[1].signum = hnd.signum
  /\ signals[0].count = 1 /\ signals[1].count = 1
  /\ due[0] = 1 /\ due[1] = 1

\* C4: when the handler is not running, a registration that no WaitAny has
\* armed has a count equal to the number of deliveries of its signal made to
\* it, has no wake pipe, and the handler has written to no pipe for it.
C4_UnarmedCount ==
  \A i \in Slots :
    (hnd.signum = 0 /\ signals[i].signum # 0 /\ ~everArmed[i]) =>
      /\ signals[i].count = due[i]
      /\ signals[i].write_fd = 0
      /\ wcalls[i] = 0

\* C4 witness: a registration never armed has received two deliveries.
C4_Witness ==
  \E i \in Slots :
    /\ hnd.signum = 0 /\ signals[i].signum # 0 /\ ~everArmed[i]
    /\ due[i] >= 2 /\ signals[i].count = due[i] /\ wcalls[i] = 0

\* The handles of a WaitAny are pairwise different.
Distinct(hs) ==
  \A a, b \in 1 .. Len(hs) : a # b => hs[a] # hs[b]

\* Every handle of a WaitAny designates a registered slot.
LiveHandles(hs) ==
  \A k \in 1 .. Len(hs) : signals[SlotOf(hs[k])].signum # 0

\* Thread t is in a WaitAny over distinct live handles with a timeout that
\* select accepts.
Waiting(t) ==
  /\ th[t].op = "WaitAny"
  /\ th[t].timeout >= 0 - 1
  /\ Distinct(th[t].hs) /\ LiveHandles(th[t].hs)

\* Thread t has left wait_for_any with the index of a registration whose
\* pipe the handler wrote to after it was armed.
Woken(t) ==
  /\ th[t].pc = "w_teardown" /\ th[t].how = "ready"
  /\ th[t].r \in 0 .. (Len(th[t].hs) - 1)
  /\ wcalls[SlotOf(th[t].hs[th[t].r + 1])] >= 1

\* C5: a WaitAny over distinct live registrations that select has woken
\* returns the index of a registration that received a delivery while armed;
\* with a single registration and one such delivery the index is 0 and the
\* count is 1 more than when the call armed it.  When a delivery reaches an
\* armed registration, the call leaves its wait with such an index.
C5_WakeIndex ==
  /\ [](\A t \in Threads :
          (Waiting(t) /\ th[t].pc = "w_teardown" /\ th[t].how = "ready") =>
            /\ Woken(t)
            /\ (Len(th[t].hs) = 1 /\ wcalls[SlotOf(th[t].hs[1])] = 1) =>
                 /\ th[t].r = 0
                 /\ signals[SlotOf(th[t].hs[1])].count = th[t].c0[1] + 1)
  /\ \A t \in Threads :
       (/\ Waiting(t) /\ th[t].pc = "w_select"
        /\ \E k \in 1 .. Len(th[t].hs) : wcalls[SlotOf(th[t].hs[k])] >= 1)
       ~> Woken(t)

\* C5 witness: a WaitAny over a single registration, armed when its count
\* was 0, leaves its wait with index 0 after one delivery, count 1.
C5_Witness ==
  \E t \in Threads :
    /\ Waiting(t) /\ Woken(t)
    /\ Len(th[t].hs) = 1 /\ th[t].r = 0 /\ ndeliv = 1
    /\ wcalls[SlotOf(th[t].hs[1])] = 1
    /\ th[t].c0[1] = 0
    /\ signals[SlotOf(th[t].hs[1])].count = 1

\* Thread t is in a WaitAny whose select returned 0.
TimedOut(t) ==
  /\ th[t].op = "WaitAny" /\ th[t].how = "timeout"
  /\ th[t].pc \in {"w_teardown", "unlock"}

\* C6 as stated: for every handle count >= 1 and every finite timeout >= 0,
\* the value WaitAny returns when the wait times out differs from every
\* index 0..count-1 and from the error value -1.
C6_TimeoutDistinguished ==
  \A t \in Threads :
    (TimedOut(t) /\ Len(th[t].hs) >= 1 /\ th[t].timeout >= 0) =>
      /\ th[t].r \notin 0 .. (Len(th[t].hs) - 1)
      /\ th[t].r # 0 - 1

\* C6: the value WaitAny returns when the wait times out is the timeout
\* argument itself; for every finite timeout >= 0 it differs from the error
\* value -1, and it differs from every index 0..count-1 exactly when the
\* timeout is at least the handle count.
C6_TimeoutIsArgument ==
  \A t \in Threads :
    TimedOut(t) =>
      /\ th[t].timeout >= 0
      /\ th[t].r = th[t].timeout
      /\ th[t].r # 0 - 1
      /\ (th[t].r \notin 0 .. (Len(th[t].hs) - 1))
           <=> (th[t].timeout >= Len(th[t].hs))

\* C6 witness: a WaitAny over two handles with timeout 0 has timed out, and
\* the value it returns is 0, the index of the first handle.
C6_Witness ==
  \E t \in Threads :
    /\ TimedOut(t) /\ th[t].pc = "unlock"
    /\ Len(th[t].hs) = 2 /\ th[t].timeout = 0 /\ th[t].r = 0

\* C7: the table mutex is not held by a thread that is blocked in the wait
\* of WaitAny (select), so a call of install or uninstall from another
\* thread can take it.
C7_LockFreeWhileWaiting ==
  \A t \in Threads : th[t].pc = "w_select" => mutex # t

\* C8: an uninstall called with the current handle of a live registration,
\* whose signal the platform accepts, returns 0, the registration being the
\* last of its signal or not, and leaves the slot free.
C8_ValidUninstallSucceeds ==
  \A t \in Threads :
    (/\ th[t].pc = "unlock" /\ th[t].op = "uninstall"
     /\ th[t].valid /\ signal_ok(th[t].sig)) =>
      /\ th[t].r = 0
      /\ signals[SlotOf(th[t].h)].signum = 0

\* A step in which thread t runs the body of uninstall.
UninstallStep(t) ==
  /\ th[t].pc \in {"idle", "lock"}
  /\ th'[t].pc = "unlock" /\ th'[t].op = "uninstall"

\* C9: an uninstall called with a pointer that designates no slot of the
\* table, NULL and &signals[NUM_SIGNALS] included, returns -1 with EINVAL,
\* and changes no slot, no memory after the table and no disposition.
C9_RejectsNonSlot ==
  [][\A t \in Threads :
       (UninstallStep(t) /\ th'[t].h \notin SlotPtrs) =>
         /\ th'[t].r = 0 - 1 /\ th'[t].errno = "EINVAL"
         /\ signals' = signals /\ disp' = disp
         /\ clobbered' = clobbered]_vars

\* C10: an uninstall called with a handle that was uninstalled before
\* returns -1, and changes no live registration, the one that has reused the
\* slot included, and no disposition.
C10_SecondUninstallRejected ==
  [][\A t \in Threads :
       (UninstallStep(t) /\ th'[t].h \in SlotPtrs /\ ~th'[t].valid) =>
         /\ th'[t].r = 0 - 1
         /\ \A i \in Slots : signals[i].signum # 0 => signals'[i] = signals[i]
         /\ disp' = disp]_vars

\* A step in which thread t runs the body of install.
InstallStep(t) ==
  /\ th[t].pc \in {"idle", "lock"}
  /\ th'[t].pc = "unlock" /\ th'[t].op = "install"

\* C11: an install called while every slot of the table holds a
\* registration returns no handle, and changes no slot (signum, count,
\* recorded disposition) and no disposition.
C11_FullTableRejected ==
  [][\A t \in Threads :
       (InstallStep(t) /\ \A i \in Slots : signals[i].signum # 0) =>
         /\ th'[t].r = NULL
         /\ signals' = signals
         /\ disp' = disp]_vars

\* C11 witness: an install of a signal the platform accepts has returned no
\* handle, every slot being registered.
C11_Witness ==
  \E t \in Threads :
    /\ th[t].pc = "unlock" /\ th[t].op = "install"
    /\ th[t].sig \in Sigs /\ th[t].r = NULL
    /\ \A i \in Slots : signals[i].signum # 0

\* C12: the dispatch handler takes no lock and waits for none: while it
\* runs, its next step is possible whoever holds the table mutex, its steps
\* change neither the mutex nor any thread, and every delivery is dispatched
\* to the end of the scan.
C12_HandlerNeverBlocks ==
  /\ [](hnd.signum # 0 => ENABLED (HandlerStep \/ HandlerReturn))
  /\ [][hnd' # hnd => mutex' = mutex /\ th' = th]_vars
  /\ (hnd.signum # 0) ~> (hnd.signum = 0)

\* C12 witness: a thread holds the mutex in the wait of WaitAny, and the
\* handler has finished the scan of a delivery that arrived during that
\* wait: it counted it and wrote the wake byte of the armed registration.
C12_Witness ==
  \E t \in Threads, i \in Slots :
    /\ mutex = t /\ th[t].pc = "w_select"
    /\ hnd.signum # 0 /\ hnd.i = NUM_SIGNALS
    /\ signals[i].signum = hnd.signum
    /\ wcalls[i] = 1 /\ signals[i].count = 1 /\ ndeliv = 1
    /\ buf[signals[i].read_fd] = 1

\* A WaitAny is between its lock and the end of teardown_pipes.
WaitInProgress ==
  \E t \in Threads :
    th[t].op = "WaitAny" /\ th[t].pc \in {"w_select", "w_scan", "w_teardown"}

\* C13: once a WaitAny has run teardown_pipes, whatever its outcome, and
\* whenever no WaitAny is in progress, every slot has read_fd and write_fd
\* equal to 0 and every pipe end a WaitAny created is closed.
C13_UnarmedOutsideWaitAny ==
  ~WaitInProgress =>
    /\ \A i \in Slots : signals[i].read_fd = 0 /\ signals[i].write_fd = 0
    /\ \A f \in Fds : fdkind[f] = "closed"

\* C14: a WaitAny over live handles among which one appears twice, woken by
\* a delivery, is never stopped in its scan (its read finds a byte), and it
\* returns the first position of a registration the handler woke, with every
\* pipe end closed.
C14_DuplicatesTolerated ==
  \A t \in Threads :
    (/\ th[t].op = "WaitAny" /\ th[t].timeout >= 0 - 1
     /\ LiveHandles(th[t].hs) /\ ~Distinct(th[t].hs)) =>
      /\ th[t].pc = "w_scan" => ENABLED ScanStep(t)
      /\ (th[t].pc = "unlock" /\ th[t].how = "ready") =>
           /\ th[t].r \in 0 .. (Len(th[t].hs) - 1)
           /\ \A k \in 1 .. th[t].r : wcalls[SlotOf(th[t].hs[k])] = 0
           /\ \A f \in Fds : fdkind[f] = "closed"

\* Thread t is in a WaitAny that has left wait_for_any or skipped it.
PastWait(t) ==
  th[t].op = "WaitAny" /\ th[t].pc \in {"w_teardown", "unlock"}

\* C15: an interrupted select (EINTR) is called again and never ends the
\* wait: a WaitAny returns -1 only after pipe() failed or after select
\* failed with an error other than EINTR.
C15_InterruptionRetried ==
  \A t \in Threads :
    (PastWait(t) /\ th[t].r = 0 - 1) =>
      \/ th[t].how = "pipe" /\ th[t].errno = "EMFILE"
      \/ th[t].how = "error" /\ th[t].errno # "EINTR"

\* C15 witness: a WaitAny whose select was interrupted (errno still reads
\* EINTR) returns a result that is no error.
C15_Witness ==
  \E t \in Threads :
    /\ PastWait(t) /\ th[t].pc = "unlock"
    /\ th[t].errno = "EINTR"
    /\ th[t].how \in {"timeout", "ready"} /\ th[t].r >= 0

\* C16: a slot whose registration has been uninstalled and that is free
\* (signum 0) is never armed: no pipe descriptor is stored into it.
C16_FreeSlotNeverArmed ==
  \A i \in Slots :
    (stale[i] /\ signals[i].signum = 0) =>
      signals[i].read_fd = 0 /\ signals[i].write_fd = 0

\* Thread t has left the wait of a WaitAny called with the handles of slots
\* 0 and 1 and the longest timeout, the two slots being registered for one
\* signal, after the only delivery: both slots counted it and the handler
\* wrote to neither pipe, so it came before the call armed them.
DeliveredBeforeWait(t) ==
  /\ PastWait(t) /\ th[t].how # "pipe"
  /\ th[t].hs = <<SlotPtr(0), SlotPtr(1)>>
  /\ th[t].timeout = MaxTimeout
  /\ signals[0].signum # 0 /\ signals[1].signum = signals[0].signum
  /\ ndeliv = 1 /\ hnd.signum = 0
  /\ signals[0].count = 1 /\ signals[1].count = 1
  /\ wcalls[0] = 0 /\ wcalls[1] = 0

\* C17 as stated: install A and B for one signal, deliver it once, then call
\* WaitAny([A, B]) with a long timeout and no further delivery: the call
\* returns index 0 and both counts are 1.
C17_ReturnsFirstIndex ==
  \A t \in Threads :
    DeliveredBeforeWait(t) =>
      /\ th[t].r = 0
      /\ signals[0].count = 1 /\ signals[1].count = 1

\* C17: in that sequence the delivery precedes the arming of the pipes, so
\* the call times out and returns the timeout argument, not an index; both
\* counts are 1.
C17_TimesOut ==
  \A t \in Threads :
    DeliveredBeforeWait(t) =>
      /\ th[t].how = "timeout" /\ th[t].r = th[t].timeout
      /\ signals[0].count = 1 /\ signals[1].count = 1

\* C17 witness: the sequence has run and the call is about to return.
C17_Witness ==
  \E t \in Threads :
    /\ DeliveredBeforeWait(t) /\ th[t].pc = "unlock"
    /\ th[t].how = "timeout" /\ th[t].r = MaxTimeout

\* The positions of the handles of t whose descriptor select reported.
ReadyPositions(t) ==
  {k \in 0 .. (Len(th[t].hs) - 1) :
     signals[SlotOf(th[t].hs[k + 1])].read_fd \in th[t].rfds}

\* The number of reads the scan of t made from descriptor f.
ReadsFrom(t, f) ==
  Cardinality({n \in 1 .. Len(th[t].reads) : th[t].reads[n] = f})

\* C18: when select reported descriptors readable, the index wait_for_any
\* returns is the lowest position whose descriptor was reported, and the
\* scan has read exactly one byte from every reported descriptor.
C18_LowestIndexAllDrained ==
  \A t \in Threads :
    (th[t].op = "WaitAny" /\ th[t].pc = "w_teardown" /\ th[t].how = "ready") =>
      /\ ReadyPositions(t) # {}
      /\ th[t].r = Min(ReadyPositions(t))
      /\ \A f \in th[t].rfds : ReadsFrom(t, f) = 1

\* C19: an install of a signal the platform rejects returns no handle,
\* leaves every slot's signum as it was (no slot is allocated), changes no
\* registered slot and no disposition, and goes on to release the mutex.
C19_RejectedInstall ==
  /\ [][\A t \in Threads :
          (InstallStep(t) /\ ~signal_ok(th'[t].sig)) =>
            /\ th'[t].r = NULL
            /\ \A i \in Slots : signals'[i].signum = signals[i].signum
            /\ \A i \in Slots : signals[i].signum # 0 => signals'[i] = signals[i]
            /\ disp' = disp]_vars
  /\ [](\A t \in Threads :
          (th[t].pc = "unlock" /\ th[t].op = "install") =>
            mutex = t /\ ENABLED Unlock(t))
  /\ [][\A t \in Threads :
          (th[t].pc = "unlock" /\ th'[t].pc # "unlock") => mutex' = "free"]_vars

\* C19 witness: with a registration in the table, an install of signal 0
\* has failed with EINVAL and returned no handle.
C19_Witness ==
  \E t \in Threads :
    /\ th[t].pc = "unlock" /\ th[t].op = "install"
    /\ th[t].sig = 0 /\ th[t].r = NULL /\ th[t].errno = "EINVAL"
    /\ \E i \in Slots : signals[i].signum # 0
    /\ \E i \in Slots : signals[i].signum = 0

\* The deliveries of slot i's signal that the running handler has still to
\* count in slot i.
Pending(i) ==
  IF hnd.signum = signals[i].signum /\ hnd.i <= i THEN 1 ELSE 0

\* C20 as stated: when install returns a handle, the count of its slot is 0.
C20_ZeroAtReturn ==
  [][\A t \in Threads :
       (/\ th[t].pc = "unlock" /\ th[t].op = "install" /\ th[t].r # NULL
        /\ th'[t].pc = "idle") =>
         signals'[SlotOf(th[t].r)].count = 0]_vars

\* C20: install sets the count of the slot it takes to 0, whatever the slot
\* held; from then on, and when install returns, the count is the number of
\* deliveries the handler has counted for the registration since; while a
\* slot stays registered its count never decreases and changes only in a
\* step of the handler, by 1.
C20_CountSinceInstall ==
  /\ [][\A t \in Threads :
          (InstallStep(t) /\ th'[t].r # NULL) =>
            signals'[SlotOf(th'[t].r)].count = 0]_vars
  /\ [](\A i \in Slots :
          signals[i].signum # 0 => signals[i].count + Pending(i) = due[i])
  /\ [][\A i \in Slots :
          (signals[i].signum # 0 /\ signals'[i].signum # 0
           /\ signals'[i].count # signals[i].count) =>
            /\ signals'[i].count = signals[i].count + 1
            /\ hnd.signum = signals[i].signum /\ hnd.i = i
            /\ hnd' = [hnd EXCEPT !.i = i + 1]
            /\ th' = th]_vars

\* C20 witness: an install is about to return the handle of a slot that an
\* earlier registration used, after a delivery, with count 0; the other slot
\* was never used.
C20_Witness ==
  \E t \in Threads :
    /\ th[t].pc = "unlock" /\ th[t].op = "install" /\ th[t].r = SlotPtr(0)
    /\ stale[0] /\ ndeliv >= 1 /\ hnd.signum = 0
    /\ signals[0].signum # 0 /\ signals[0].count = 0
    /\ signals[1] = ZeroInfo /\ ~stale[1] /\ ~live[1]

====
